---- MODULE Spec2Model ----
(***************************************************************************)
(* Model of the rickroll-firewall link pipeline:                           *)
(*   DesktopRecentLinkWatcher -> LinkMonitorService -> RickrollFirewall.   *)
(* Python strings that the code searches (URLs, patterns) are sequences of *)
(* one-character strings; an Optional value is a sequence of length 0 or 1.*)
(***************************************************************************)
EXTENDS Integers, Sequences, FiniteSets, TLC

\* ------------------------------------------------------------------ bounds
MaxRecord  == 3   \* entries the external record may grow to
MaxEvents  == 6   \* LinkClickEvent objects the watchers create in one behaviour
MaxPublish == 2   \* events handed to the callers of inspect and block
MaxBlocks  == 3   \* events handed to the firewall while its history is read
MaxRounds  == 2   \* events published to a monitor that dispatches
MaxHandlers == 2  \* subscribe calls on a monitor that dispatches
MaxSubs    == 3   \* subscribe calls in one behaviour
MaxSources == 2   \* register_source calls after construction
MaxCancels == 1   \* task cancellations in one behaviour
MaxReturned == 1  \* lists handed out by history() in one behaviour
MaxTime    == 1   \* advances of the wall clock in one behaviour
MaxInspects == 2  \* direct inspect calls on one event
MaxFragments == 2 \* fragments a url handed to analyze is made of

\* ------------------------------------------------- scaled program constants
Window     == 2   \* DesktopRecentLinkWatcher._window (1024 in the source)
HistoryCap == 2   \* deque(maxlen=200) of RickrollFirewallService._blocked

\* ---------------------------------------------------------------- strings
UpperMap ==
  ("A" :> "a") @@ ("B" :> "b") @@ ("C" :> "c") @@ ("D" :> "d") @@ ("E" :> "e") @@
  ("F" :> "f") @@ ("G" :> "g") @@ ("H" :> "h") @@ ("I" :> "i") @@ ("J" :> "j") @@
  ("K" :> "k") @@ ("L" :> "l") @@ ("M" :> "m") @@ ("N" :> "n") @@ ("O" :> "o") @@
  ("P" :> "p") @@ ("Q" :> "q") @@ ("R" :> "r") @@ ("S" :> "s") @@ ("T" :> "t") @@
  ("U" :> "u") @@ ("V" :> "v") @@ ("W" :> "w") @@ ("X" :> "x") @@ ("Y" :> "y") @@
  ("Z" :> "z")

\* str.lower()
Lower(s) ==
  [i \in 1..Len(s) |-> IF s[i] \in DOMAIN UpperMap THEN UpperMap[s[i]] ELSE s[i]]

\* `p in s` for strings
Contains(s, p) ==
  \E i \in 0..(Len(s) - Len(p)) : SubSeq(s, i + 1, i + Len(p)) = p

\* s.startswith(p)
StartsWith(s, p) ==
  Len(s) >= Len(p) /\ SubSeq(s, 1, Len(p)) = p

\* ------------------------------------------------------------------- URLs
\* The URLs that external records and producers use in this model.
Urls ==
  << <<"h","t","t","p","s",":","/","/","y","o","u","t","u",".","b","e","/",
       "d","Q","w","4","w","9","W","g","X","c","Q">>,
     <<"h","t","t","p","s",":","/","/","e","x","a","m","p","l","e",".","c",
       "o","m","/","d","o","c","s">>,
     <<"h","t","t","p",":","/","/","x",".","i","o","/","R","I","C","K">>,
     <<"f","t","p",":","/","/","r","i","c","k","r","o","l","l">> >>

UrlIds == 1..Len(Urls)

HttpPrefix == <<"h","t","t","p">>

\* --------------------------------------------------------------- Detector
_PATTERNS ==
  << <<"d","Q","w","4","w","9","W","g","X","c","Q">>,
     <<"r","i","c","k","r","o","l","l">>,
     <<"r","i","c","k","-","r","o","l","l">>,
     <<"n","e","v","e","r","-","g","o","n","n","a","-","g","i","v","e","-",
       "y","o","u","-","u","p">>,
     <<"r","i","c","k","_","a","s","t","l","e","y">>,
     <<"y","o","u","t","u",".","b","e","/","d","Q","w","4","w","9","W","g",
       "X","c","Q">>,
     <<"y","o","u","t","u","b","e",".","c","o","m","/","w","a","t","c","h",
       "?","v","=","d","Q","w","4","w","9","W","g","X","c","Q">>,
     <<"y","o","u","t","u","b","e",".","c","o","m","/","e","m","b","e","d",
       "/","d","Q","w","4","w","9","W","g","X","c","Q">>,
     <<"t","i","k","t","o","k",".","c","o","m","/","@","r","i","c","k","a",
       "s","t","l","e","y">> >>

HeuristicTokens ==
  { <<"r","i","c","k">>, <<"a","s","t","l","e","y">>,
    <<"n","e","v","e","r"," ","g","o","n","n","a">> }

HeuristicName ==
  <<"h","e","u","r","i","s","t","i","c","-","k","e","y","w","o","r","d","s">>

\* LinkAnalysisResult; confidence is in tenths (1.0 -> 10, 0.7 -> 7, 0.1 -> 1).
\* reason is the pair <<fixed text, interpolated pattern>>.
LinkAnalysisResult(is_rickroll, reason, matched_pattern, confidence) ==
  [is_rickroll |-> is_rickroll, reason |-> reason,
   matched_pattern |-> matched_pattern, confidence |-> confidence]

\* analyze without the two .lower() calls
analyzeCaseSensitive(url) ==
  LET hits == {i \in 1..Len(_PATTERNS) : Contains(url, _PATTERNS[i])}
  IN IF hits # {}
       THEN LET first == CHOOSE i \in hits : \A j \in hits : i <= j
                pattern == _PATTERNS[first]
            IN LinkAnalysisResult(TRUE,
                 <<"Matched known Rickroll pattern: ", pattern>>, <<pattern>>, 10)
     ELSE IF \E token \in HeuristicTokens : Contains(url, token)
       THEN LinkAnalysisResult(TRUE,
              <<"Matched heuristic keywords associated with Rick Astley", <<>>>>,
              <<HeuristicName>>, 7)
     ELSE LinkAnalysisResult(FALSE,
              <<"No Rickroll indicators detected", <<>>>>, <<>>, 1)

\* RickrollDetectorService.analyze
analyze(url) ==
  LET lower_url == Lower(url)
      hits == {i \in 1..Len(_PATTERNS) : Contains(lower_url, Lower(_PATTERNS[i]))}
  IN IF hits # {}
       THEN LET first == CHOOSE i \in hits : \A j \in hits : i <= j
                pattern == _PATTERNS[first]
            IN LinkAnalysisResult(TRUE,
                 <<"Matched known Rickroll pattern: ", pattern>>, <<pattern>>, 10)
     ELSE IF \E token \in HeuristicTokens : Contains(lower_url, token)
       THEN LinkAnalysisResult(TRUE,
              <<"Matched heuristic keywords associated with Rick Astley", <<>>>>,
              <<HeuristicName>>, 7)
     ELSE LinkAnalysisResult(FALSE,
              <<"No Rickroll indicators detected", <<>>>>, <<>>, 1)

\* --------------------------------------------------- urls handed to analyze
\* The pieces the urls of direct analyze calls are made of: every signature,
\* every heuristic token, and text that holds neither, in both cases.
Fragments ==
  {_PATTERNS[i] : i \in 1..Len(_PATTERNS)} \cup HeuristicTokens \cup
  { <<"h","t","t","p","s",":","/","/">>,
    <<"e","x","a","m","p","l","e",".","c","o","m","/","d","o","c","s">>,
    <<"D","Q","W","4","W","9","W","G","X","C","Q">>,
    <<"R","o","l","l">>,
    <<"N","E","V","E","R">> }

RECURSIVE Flatten(_)
Flatten(parts) ==
  IF parts = <<>> THEN <<>> ELSE Head(parts) \o Flatten(Tail(parts))

TestUrls ==
  {Flatten(parts) : parts \in UNION {[1..n -> Fragments] : n \in 1..MaxFragments}}

\* ------------------------------------------------------------------ state
VARIABLES
  analyzeArg,      \* the url of the latest direct call of analyze, <<>> before any
  analyzeResult,   \* what that call returned, as an Optional
  now,             \* the wall clock read by datetime.utcnow()
  events,          \* every LinkClickEvent object created so far, by identity
  heap,            \* list objects: heap[BufRef] is RickrollFirewallService._blocked,
                   \* the others are lists returned by history()
  held,            \* references to the lists callers got from history()
  inspectCalls,    \* per event: calls of RickrollFirewallService.inspect on it
  analyzeCalls,    \* per event: calls of RickrollDetectorService.analyze on its url
  inspectReturns,  \* per event: the results inspect has returned for it
  blockLog,        \* every record inspect ever appended to _blocked, in order
  appendedFor,     \* per record of blockLog: the event object it was appended for
  \* LinkMonitorService
  _handlers,       \* the dict, in insertion order: <<[token, record], ...>>
  _queue,          \* asyncio.Queue of event identities
  _sources,        \* list of registered sources
  _sources_started,
  dispatch,        \* the dispatch task: pc, event in hand, rest of the snapshot
  hooks,           \* OnLinkOpen closures created by on_load, with their filter
  subscribes,      \* number of subscribe calls made
  unsubscribes,    \* number of unsubscribe calls that named a known token
  overwritten,     \* subscribe calls that replaced a live registration
  delivered,       \* log of handler invocations made by the dispatch loop
  callbacks,       \* log of controller callbacks invoked by hook handlers
  inflight,        \* handler invocations started and not yet completed
  raised,          \* [token, event] of every handler invocation that raised
  exceptions,      \* tokens logged by "Unhandled exception in link handler"
  rounds,          \* [event, snap]: the snapshot each dequeued event was given
  published,       \* events in the order publish enqueued them
  dispatched,      \* events whose dispatch round ran to the end of the snapshot
  tasks,           \* number of dispatch tasks created so far
  cancels,         \* number of task cancellations so far
  \* DesktopRecentLinkWatcher, one per source
  watcher,         \* per source: pc of its task, _processed, _processed_index, and
                   \* the logs spawned (tasks created), deduped (an entry was
                   \* skipped as seen), scannedOn (threads that ran the body of
                   \* _read_recent_entries), slept (sleeps completed since the
                   \* task's last read, <<>> before its first), missing (the
                   \* last read found no record), recovered (the last read
                   \* published an event and the one before found no record)
  record,          \* bookmark entries of the external record, oldest first
  fileState        \* "ok", "absent" or "bad" (unparsable)

fwVars  == <<now, events, heap, held, inspectCalls, analyzeCalls, inspectReturns,
             blockLog, appendedFor>>
monVars == <<_handlers, _queue, _sources, _sources_started, dispatch, hooks,
             subscribes, unsubscribes, overwritten, delivered, callbacks,
             inflight, raised, exceptions, rounds, published, dispatched,
             tasks, cancels>>
srcVars == <<watcher, record, fileState>>
detVars == <<analyzeArg, analyzeResult>>
vars    == <<detVars, fwVars, monVars, srcVars>>

BufRef == 0

FirewallName == "RickrollFirewallService"

\* Callers of LinkClickEvent.block other than the firewall
OtherBlockers == {"manual"}
OtherReasons  == {<<"blocked by hand", <<>>>>}

\* ------------------------------------------------------------ link_models
\* LinkClickEvent(url=..., source=..., metadata=...) with the dataclass defaults
LinkClickEvent(url, source, metadata) ==
  [url |-> url, source |-> source, timestamp |-> now, metadata |-> metadata,
   blocked |-> FALSE, blocked_by |-> <<>>, block_reason |-> <<>>]

\* the metadata dict; a missing key is the empty Optional
Metadata(added, visited) ==
  [added |-> added, visited |-> visited, analysis |-> <<>>, blocked_at |-> <<>>]

\* block without the `if self.blocked: return` guard
blockAgain(ev, reason, blocked_by) ==
  [ev EXCEPT !.blocked = TRUE,
             !.block_reason = <<reason>>,
             !.blocked_by = <<blocked_by>>,
             !.metadata.blocked_at = IF @ = <<>> THEN <<now>> ELSE @]

\* LinkClickEvent.block
block(ev, reason, blocked_by) ==
  IF ev.blocked
    THEN ev
    ELSE [ev EXCEPT !.blocked = TRUE,
                    !.block_reason = <<reason>>,
                    !.blocked_by = <<blocked_by>>,
                    !.metadata.blocked_at = IF @ = <<>> THEN <<now>> ELSE @]

\* `await self._detector.analyze(event.url)` for each modelled url
Detector == [u \in UrlIds |-> analyze(Urls[u])]

\* the urls producers other than the watcher publish
ApiUrls == {1, 2}

\* --------------------------------------------------------------- Firewall
\* a deque without maxlen
DequeAppendUnbounded(buf, rec) == Append(buf, rec)

\* deque(maxlen=HistoryCap).append
DequeAppend(buf, rec) ==
  IF Len(buf) >= HistoryCap
    THEN Append(SubSeq(buf, Len(buf) - HistoryCap + 2, Len(buf)), rec)
    ELSE Append(buf, rec)

HistoryRecord(ev, result) ==
  [url |-> ev.url, when |-> ev.timestamp, reason |-> result.reason]

\* inspect without the metadata cache
inspectUncached(ev, buf) ==
  LET result == Detector[ev.url]
      ev1    == [ev EXCEPT !.metadata.analysis = <<result>>]
      doBlock == result.is_rickroll /\ ~ev1.blocked
  IN [event    |-> IF doBlock THEN block(ev1, result.reason, FirewallName) ELSE ev1,
      buf      |-> IF doBlock THEN DequeAppend(buf, HistoryRecord(ev1, result)) ELSE buf,
      appended |-> IF doBlock THEN <<HistoryRecord(ev1, result)>> ELSE <<>>,
      analyzed |-> 1,
      result   |-> result]

\* inspect without the `not event.blocked` test
inspectReappend(ev, buf) ==
  LET cached == ev.metadata.analysis
      hit    == cached # <<>>
      result == IF hit THEN cached[1] ELSE Detector[ev.url]
      ev1    == IF hit THEN ev ELSE [ev EXCEPT !.metadata.analysis = <<result>>]
      doBlock == result.is_rickroll
  IN [event    |-> IF doBlock THEN block(ev1, result.reason, FirewallName) ELSE ev1,
      buf      |-> IF doBlock THEN DequeAppend(buf, HistoryRecord(ev1, result)) ELSE buf,
      appended |-> IF doBlock THEN <<HistoryRecord(ev1, result)>> ELSE <<>>,
      analyzed |-> IF hit THEN 0 ELSE 1,
      result   |-> result]

\* inspect without the `result.is_rickroll` test
inspectBlockAll(ev, buf) ==
  LET cached == ev.metadata.analysis
      hit    == cached # <<>>
      result == IF hit THEN cached[1] ELSE Detector[ev.url]
      ev1    == IF hit THEN ev ELSE [ev EXCEPT !.metadata.analysis = <<result>>]
      doBlock == ~ev1.blocked
  IN [event    |-> IF doBlock THEN block(ev1, result.reason, FirewallName) ELSE ev1,
      buf      |-> IF doBlock THEN DequeAppend(buf, HistoryRecord(ev1, result)) ELSE buf,
      appended |-> IF doBlock THEN <<HistoryRecord(ev1, result)>> ELSE <<>>,
      analyzed |-> IF hit THEN 0 ELSE 1,
      result   |-> result]

\* RickrollFirewallService.inspect on event object ev with buffer buf.
\* `await self._detector.analyze(...)` awaits a coroutine that never yields,
\* so the body runs without interleaving.
inspect(ev, buf) ==
  LET cached == ev.metadata.analysis
      hit    == cached # <<>>
      result == IF hit THEN cached[1] ELSE Detector[ev.url]
      ev1    == IF hit THEN ev ELSE [ev EXCEPT !.metadata.analysis = <<result>>]
      doBlock == result.is_rickroll /\ ~ev1.blocked
  IN [event    |-> IF doBlock THEN block(ev1, result.reason, FirewallName) ELSE ev1,
      buf      |-> IF doBlock THEN DequeAppend(buf, HistoryRecord(ev1, result)) ELSE buf,
      appended |-> IF doBlock THEN <<HistoryRecord(ev1, result)>> ELSE <<>>,
      analyzed |-> IF hit THEN 0 ELSE 1,
      result   |-> result]

\* RickrollFirewallService.history: a new list object holding a copy
history(h) ==
  LET ref == Len(held) + 1
  IN [heap |-> [r \in DOMAIN h \cup {ref} |-> IF r = ref THEN h[BufRef] ELSE h[r]],
      ref  |-> ref]

\* ---------------------------------------------------------------- Monitor
HookHandlers  == {"hook1"}            \* closures `handler` made by on_load
PlainHandlers == {"p1"}               \* any other subscriber
Handlers      == HookHandlers \cup PlainHandlers

Sources == {"recent_watcher", "other_watcher"}

NoToken == <<"", 0>>

Idle(pc) == [pc |-> pc, event |-> 0, token |-> NoToken, rest |-> <<>>]

\* token = f"sub-{id(handler):x}-{len(self._handlers)}"
MakeToken(handler, handlers) == <<handler, Len(handlers)>>

_SubscriptionRecord(handler, include_safe, include_blocked) ==
  [handler |-> handler, include_safe |-> include_safe,
   include_blocked |-> include_blocked]

HasKey(d, k) == \E i \in 1..Len(d) : d[i].token = k

\* d[k] = v on an insertion-ordered dict
DictSet(d, k, v) ==
  IF HasKey(d, k)
    THEN [i \in 1..Len(d) |-> IF d[i].token = k THEN [token |-> k, record |-> v] ELSE d[i]]
    ELSE Append(d, [token |-> k, record |-> v])

\* d.pop(k, None)
RECURSIVE DictPop(_, _)
DictPop(d, k) ==
  IF d = <<>> THEN <<>>
  ELSE IF Head(d).token = k THEN DictPop(Tail(d), k)
  ELSE <<Head(d)>> \o DictPop(Tail(d), k)

\* the filter without its include_safe test
AcceptsUnlessBlocked(rec, ev) == ~(ev.blocked /\ ~rec.include_blocked)

\* the two `continue` tests of _dispatch_loop, negated
Accepts(rec, ev) ==
  /\ ~(ev.blocked /\ ~rec.include_blocked)
  /\ ~(~ev.blocked /\ ~rec.include_safe)

\* index of the first snapshot item the loop does not skip, 0 if none
NextMatch(snap, ev) ==
  LET ok == {i \in 1..Len(snap) : Accepts(snap[i].record, ev)}
  IN IF ok = {} THEN 0 ELSE CHOOSE i \in ok : \A j \in ok : i <= j

\* a loop without the try/except
CaughtNever(exc) == FALSE

\* a bare `except:` (or `except BaseException:`)
CaughtAll(exc) == TRUE

\* `except Exception:` of _dispatch_loop; CancelledError is a BaseException
Caught(exc) == exc = "Exception"

\* a LIFO queue
QueueGetLast(q) == [event |-> q[Len(q)], queue |-> SubSeq(q, 1, Len(q) - 1)]

\* asyncio.Queue.get on a non-empty queue
QueueGet(q) == [event |-> Head(q), queue |-> Tail(q)]

\* ---------------------------------------------------------------- Watcher
RecentFile == "recently-used.xbel"

\* start without the running-task guard
startAlways(w) == [w EXCEPT !.pc = "read", !.spawned = @ + 1, !.slept = <<>>]

\* DesktopRecentLinkWatcher.start
start(w) ==
  IF w.pc \notin {"none", "done"}
    THEN w
    ELSE [w EXCEPT !.pc = "read", !.spawned = @ + 1, !.slept = <<>>]

\* `for source in self._sources: source.start(loop, self)`
RECURSIVE StartAll(_, _)
StartAll(srcs, ws) ==
  IF srcs = <<>> THEN ws
  ELSE StartAll(Tail(srcs), [ws EXCEPT ![Head(srcs)] = start(@)])

\* the eviction loop without `self._processed_index.discard(oldest)`
RECURSIVE EvictKeepIndex(_, _)
EvictKeepIndex(proc, idx) ==
  IF Len(proc) > Window
    THEN EvictKeepIndex(Tail(proc), idx)
    ELSE [processed |-> proc, index |-> idx]

\* the eviction loop with pop() in place of popleft()
RECURSIVE EvictNewest(_, _)
EvictNewest(proc, idx) ==
  IF Len(proc) > Window
    THEN EvictNewest(SubSeq(proc, 1, Len(proc) - 1), idx \ {proc[Len(proc)]})
    ELSE [processed |-> proc, index |-> idx]

\* DesktopRecentLinkWatcher._remember_entry
RECURSIVE Evict(_, _)
Evict(proc, idx) ==
  IF Len(proc) > Window
    THEN Evict(Tail(proc), idx \ {Head(proc)})
    ELSE [processed |-> proc, index |-> idx]

_remember_entry(proc, idx, entry_id) ==
  Evict(Append(proc, entry_id), idx \cup {entry_id})

\* a membership test that never finds the entry
SeenNever(idx, entry_id) == FALSE

\* the membership test `entry_id in self._processed_index`
Seen(idx, entry_id) == entry_id \in idx

\* entry_id = f"{href}|{visited}"; none of the modelled strings holds "|",
\* so the pair identifies the formatted string
EntryId(href, visited) == <<href, visited>>

Range(f) == {f[i] : i \in DOMAIN f}

\* the identifiers of the http(s) bookmarks of a record
HttpIds(rec) ==
  {EntryId(rec[k].href, IF rec[k].visited # "" THEN rec[k].visited ELSE rec[k].added) :
     k \in {n \in 1..Len(rec) : StartsWith(Urls[rec[n].href], HttpPrefix)}}

\* the bookmark loop of _read_recent_entries; out collects the yielded events
RECURSIVE Scan(_, _, _, _)
Scan(entries, proc, idx, out) ==
  IF entries = <<>>
    THEN [processed |-> proc, index |-> idx, out |-> out, skipped |-> FALSE]
  ELSE
    LET bookmark == Head(entries)
        href     == bookmark.href
        visited  == IF bookmark.visited # "" THEN bookmark.visited ELSE bookmark.added
        entry_id == EntryId(href, visited)
    IN IF ~StartsWith(Urls[href], HttpPrefix)
         THEN Scan(Tail(entries), proc, idx, out)
       ELSE IF Seen(idx, entry_id)
         THEN [Scan(Tail(entries), proc, idx, out) EXCEPT !.skipped = TRUE]
       ELSE
         LET r == _remember_entry(proc, idx, entry_id)
         IN Scan(Tail(entries), r.processed, r.index,
                 Append(out, LinkClickEvent(href, RecentFile,
                                            Metadata(bookmark.added, visited))))

\* what reading the record raises when it cannot be read: line 159 raises
\* FileNotFoundError, ET.parse (line 161) raises ParseError
ReadRaises(st) == IF st = "absent" THEN "FileNotFoundError" ELSE "ParseError"

\* the except clauses without `except Exception`
AfterRaiseUncaught(exc) ==
  IF exc = "FileNotFoundError" THEN "sleep_nf" ELSE "done"

\* The except clauses around the try block of _watch_loop: where an exception
\* raised in it sends the task.  FileNotFoundError: the sleep of the handler;
\* CancelledError: re-raised, the task ends; any other Exception: logged, on
\* to the sleep that ends the iteration.
AfterRaise(exc) ==
  IF exc = "FileNotFoundError" THEN "sleep_nf"
  ELSE IF exc = "CancelledError" THEN "done"
  ELSE "sleep"

\* _read_recent_entries holds a `yield`: calling it makes a generator object
\* and runs none of its body
ReadIsGenerator == TRUE

\* asyncio.to_thread(f) calls f on a worker thread; when f is a generator
\* function the body runs where the generator is iterated, which is the
\* `for event in entries` of _watch_loop on the event loop
BodyThread(isGenerator) == IF isGenerator THEN "loop" ELSE "worker"

\* DesktopRecentLinkWatcher._read_recent_entries on the current record
_read_recent_entries(w) == Scan(record, w._processed, w._processed_index, <<>>)

\* ------------------------------------------------------------------- Init
\* State once the services are constructed: LinkMonitorService.__init__ has
\* registered the injected recent_watcher; nothing runs yet.
ServicesInit ==
  /\ now = 0
  /\ events = <<>>
  /\ heap = (BufRef :> <<>>)
  /\ held = <<>>
  /\ inspectCalls = <<>>
  /\ analyzeCalls = <<>>
  /\ inspectReturns = <<>>
  /\ blockLog = <<>>
  /\ appendedFor = <<>>
  /\ _handlers = <<>>
  /\ _queue = <<>>
  /\ _sources = <<"recent_watcher">>
  /\ _sources_started = FALSE
  /\ dispatch = Idle("none")
  /\ hooks = [h \in HookHandlers |-> <<>>]
  /\ subscribes = 0
  /\ unsubscribes = 0
  /\ overwritten = 0
  /\ delivered = <<>>
  /\ callbacks = <<>>
  /\ inflight = {}
  /\ raised = <<>>
  /\ exceptions = <<>>
  /\ rounds = <<>>
  /\ published = <<>>
  /\ dispatched = {}
  /\ tasks = 0
  /\ cancels = 0
  /\ watcher = [s \in Sources |->
                  [pc |-> "none", _processed |-> <<>>, _processed_index |-> {},
                   spawned |-> 0, deduped |-> FALSE, scannedOn |-> {},
                   slept |-> <<>>, missing |-> FALSE, recovered |-> FALSE]]
  /\ record = <<>>
  /\ fileState = "ok"

\* no direct call of analyze is under way
Init ==
  /\ analyzeArg = <<>>
  /\ analyzeResult = <<>>
  /\ ServicesInit

\* a caller is about to await detector.analyze(analyzeArg)
DetectorInit ==
  /\ analyzeArg \in TestUrls
  /\ analyzeResult = <<>>
  /\ ServicesInit

\* ---------------------------------------------------- detector operations
\* the caller's `await detector.analyze(analyzeArg)` returns
Analyze ==
  /\ analyzeArg # <<>>
  /\ analyzeResult' = <<analyze(analyzeArg)>>
  /\ UNCHANGED <<analyzeArg, fwVars, monVars, srcVars>>

\* ---------------------------------------------------- firewall operations
\* the effect of `await firewall.inspect(event)` on event object e
DoInspect(e) ==
  LET r == inspect(events[e], heap[BufRef])
  IN /\ events' = [events EXCEPT ![e] = r.event]
     /\ heap' = [heap EXCEPT ![BufRef] = r.buf]
     /\ inspectCalls' = [inspectCalls EXCEPT ![e] = @ + 1]
     /\ analyzeCalls' = [analyzeCalls EXCEPT ![e] = @ + r.analyzed]
     /\ inspectReturns' = [inspectReturns EXCEPT ![e] = @ \cup {r.result}]
     /\ blockLog' = blockLog \o r.appended
     /\ appendedFor' = appendedFor \o [k \in 1..Len(r.appended) |-> e]
     /\ UNCHANGED <<now, held>>

\* a consumer calls firewall.inspect(event) directly
Inspect(e) ==
  /\ e \in 1..Len(events)
  /\ inspectCalls[e] < MaxInspects
  /\ DoInspect(e)
  /\ UNCHANGED <<monVars, srcVars, detVars>>

\* some code calls event.block(reason=..., blocked_by=...) directly
Block(e, reason, blocked_by) ==
  /\ e \in 1..Len(events)
  /\ events' = [events EXCEPT ![e] = block(@, reason, blocked_by)]
  /\ UNCHANGED <<now, heap, held, inspectCalls, analyzeCalls, inspectReturns,
                 blockLog, appendedFor,
                 monVars, srcVars, detVars>>

\* a consumer calls firewall.history() and keeps the list
History ==
  /\ Len(held) < MaxReturned
  /\ LET h == history(heap)
     IN /\ heap' = h.heap
        /\ held' = Append(held, h.ref)
  /\ UNCHANGED <<now, events, inspectCalls, analyzeCalls, inspectReturns, blockLog, appendedFor,
                 monVars, srcVars, detVars>>

ForeignRecord == [url |-> 0, when |-> 0, reason |-> <<"", <<>>>>]

\* the consumer mutates a list it got from history(): .clear() or .append(x)
MutateReturned(i, op) ==
  /\ i \in 1..Len(held)
  /\ \/ op = "clear" /\ heap[held[i]] # <<>>
        /\ heap' = [heap EXCEPT ![held[i]] = <<>>]
     \/ op = "append" /\ ForeignRecord \notin {heap[held[i]][k] : k \in 1..Len(heap[held[i]])}
        /\ heap' = [heap EXCEPT ![held[i]] = Append(@, ForeignRecord)]
  /\ UNCHANGED <<now, events, held, inspectCalls, analyzeCalls, inspectReturns,
                 blockLog, appendedFor,
                 monVars, srcVars, detVars>>

\* time passes
ClockTick ==
  /\ now < MaxTime
  /\ now' = now + 1
  /\ UNCHANGED <<events, heap, held, inspectCalls, analyzeCalls, inspectReturns,
                 blockLog, appendedFor,
                 monVars, srcVars, detVars>>

\* new event objects enter `events` with their bookkeeping
Created(evs) ==
  /\ events' = events \o evs
  /\ inspectCalls' = inspectCalls \o [i \in 1..Len(evs) |-> 0]
  /\ analyzeCalls' = analyzeCalls \o [i \in 1..Len(evs) |-> 0]
  /\ inspectReturns' = inspectReturns \o [i \in 1..Len(evs) |-> {}]

\* LinkMonitorService.publish for each of the event objects ids, in order
Enqueued(ids) ==
  /\ _queue' = _queue \o ids
  /\ published' = published \o ids

\* ----------------------------------------------------- monitor operations
\* LinkMonitorService.ensure_running
DoEnsureRunning ==
  /\ dispatch' = IF dispatch.pc \in {"none", "done"} THEN Idle("get") ELSE dispatch
  /\ tasks' = IF dispatch.pc \in {"none", "done"} THEN tasks + 1 ELSE tasks
  /\ _sources_started' = TRUE
  /\ watcher' = IF _sources_started THEN watcher ELSE StartAll(_sources, watcher)

EnsureRunning ==
  /\ DoEnsureRunning
  /\ UNCHANGED <<fwVars, _handlers, _queue, _sources, hooks, subscribes,
                 unsubscribes, overwritten, delivered, callbacks, inflight,
                 raised, exceptions, rounds, published, dispatched, cancels, record, fileState, detVars>>

\* LinkMonitorService.register_source
RegisterSource(source) ==
  /\ Len(_sources) < 1 + MaxSources
  /\ _sources' = Append(_sources, source)
  /\ watcher' = IF _sources_started
                  THEN [watcher EXCEPT ![source] = start(@)]
                  ELSE watcher
  /\ UNCHANGED <<fwVars, _handlers, _queue, _sources_started, dispatch, hooks,
                 subscribes, unsubscribes, overwritten, delivered, callbacks,
                 inflight, raised, exceptions, rounds, published, dispatched,
                 tasks, cancels, record, fileState, detVars>>

\* LinkMonitorService.subscribe
DoSubscribe(handler, include_safe, include_blocked) ==
  LET token == MakeToken(handler, _handlers)
  IN /\ subscribes < MaxSubs
     /\ _handlers' = DictSet(_handlers, token,
                       _SubscriptionRecord(handler, include_safe, include_blocked))
     /\ overwritten' = IF HasKey(_handlers, token) THEN overwritten + 1 ELSE overwritten
     /\ subscribes' = subscribes + 1
     /\ DoEnsureRunning
     /\ UNCHANGED <<fwVars, _queue, _sources, unsubscribes, delivered, callbacks,
                    inflight, raised, exceptions, rounds, published, dispatched,
                    cancels, record, fileState, detVars>>

Subscribe(handler, include_safe, include_blocked) ==
  /\ handler \in PlainHandlers
  /\ DoSubscribe(handler, include_safe, include_blocked)
  /\ UNCHANGED hooks

\* OnLinkOpen(include_safe, include_blocked).on_load: a new closure `handler`
OnLoad(handler, include_safe, include_blocked) ==
  /\ handler \in HookHandlers
  /\ hooks[handler] = <<>>
  /\ hooks' = [hooks EXCEPT ![handler] =
                 <<[include_safe |-> include_safe, include_blocked |-> include_blocked]>>]
  /\ DoSubscribe(handler, include_safe, include_blocked)

\* LinkMonitorService.unsubscribe
Unsubscribe(token) ==
  /\ _handlers' = DictPop(_handlers, token)
  /\ unsubscribes' = IF HasKey(_handlers, token) THEN unsubscribes + 1 ELSE unsubscribes
  /\ UNCHANGED <<fwVars, _queue, _sources, _sources_started, dispatch, hooks,
                 subscribes, overwritten, delivered, callbacks, inflight, raised,
                 exceptions, rounds, published, dispatched, tasks, cancels,
                 srcVars, detVars>>

\* a producer other than the watcher: `await monitor.publish(LinkClickEvent(...))`
Publish(url) ==
  /\ Created(<<LinkClickEvent(url, "api", Metadata("", ""))>>)
  /\ Enqueued(<<Len(events) + 1>>)
  /\ UNCHANGED <<now, heap, held, blockLog, appendedFor, _handlers, _sources,
                 _sources_started, dispatch, hooks, subscribes, unsubscribes,
                 overwritten, delivered, callbacks, inflight, raised, exceptions,
                 rounds, dispatched, tasks, cancels, srcVars, detVars>>

\* The body of `for token, record in list(self._handlers.items())` from the
\* items snap on: skip the items the filter rejects, call the first handler it
\* accepts and suspend on it, or finish the round.  infl is the set of
\* invocations still in progress.  A hook handler (OnLinkOpen.on_load.handler)
\* runs firewall.inspect and then, unless the link is safe and the hook has
\* include_safe=False, the controller callback.
Deliver(e, snap, infl) ==
  LET i == NextMatch(snap, events[e])
  IN IF i = 0
       THEN /\ dispatch' = Idle("get")
            /\ dispatched' = dispatched \cup {e}
            /\ inflight' = infl
            /\ UNCHANGED <<fwVars, delivered, callbacks>>
       ELSE
         LET token  == snap[i].token
             rec    == snap[i].record
         IN /\ dispatch' = [pc |-> "handler", event |-> e, token |-> token,
                            rest |-> SubSeq(snap, i + 1, Len(snap))]
            /\ delivered' = Append(delivered,
                 [token |-> token, event |-> e, blocked |-> events[e].blocked,
                  include_safe |-> rec.include_safe,
                  include_blocked |-> rec.include_blocked])
            /\ inflight' = infl \cup {[token |-> token, event |-> e]}
            /\ UNCHANGED dispatched
            /\ IF rec.handler \in HookHandlers
                 THEN LET hook == hooks[rec.handler][1]
                          analysis == inspect(events[e], heap[BufRef]).result
                      IN /\ DoInspect(e)
                         /\ callbacks' =
                              IF ~analysis.is_rickroll /\ ~hook.include_safe
                                THEN callbacks
                                ELSE Append(callbacks,
                                       [handler |-> rec.handler, event |-> e,
                                        blocked |-> events'[e].blocked,
                                        include_safe |-> hook.include_safe,
                                        include_blocked |-> hook.include_blocked])
                 ELSE UNCHANGED <<fwVars, callbacks>>

\* `event = await self._queue.get()` returns and the round starts
DispatchGet ==
  /\ dispatch.pc = "get"
  /\ _queue # <<>>
  /\ LET g == QueueGet(_queue)
     IN /\ _queue' = g.queue
        /\ rounds' = Append(rounds, [event |-> g.event, snap |-> _handlers])
        /\ Deliver(g.event, _handlers, inflight)
  /\ UNCHANGED <<_handlers, _sources, _sources_started, hooks, subscribes,
                 unsubscribes, overwritten, raised, exceptions, published,
                 tasks, cancels, srcVars, detVars>>

\* `await _maybe_await(record.handler(event))` ends: normally ("ok"), by an
\* exception of the handler, or by the cancellation of the dispatch task
HandlerEnds(exc) ==
  LET mine == [token |-> dispatch.token, event |-> dispatch.event]
  IN /\ dispatch.pc = "handler"
     /\ IF exc = "ok" \/ Caught(exc)
          THEN /\ exceptions' = IF exc = "ok" THEN exceptions
                                ELSE Append(exceptions, dispatch.token)
               /\ Deliver(dispatch.event, dispatch.rest, inflight \ {mine})
          ELSE /\ dispatch' = Idle("done")
               /\ inflight' = inflight \ {mine}
               /\ UNCHANGED <<fwVars, exceptions, delivered, callbacks, dispatched>>
     /\ raised' = IF exc = "Exception" THEN Append(raised, mine) ELSE raised
     /\ UNCHANGED <<_handlers, _queue, _sources, _sources_started, hooks,
                    subscribes, unsubscribes, overwritten, rounds, published,
                    tasks, srcVars, detVars>>

\* the handler returns
HandlerReturns ==
  /\ HandlerEnds("ok")
  /\ UNCHANGED cancels

\* the handler raises; a hook handler catches what its callback raises
HandlerRaises ==
  /\ dispatch.pc = "handler"
  /\ dispatch.token[1] \in PlainHandlers
  /\ HandlerEnds("Exception")
  /\ UNCHANGED cancels

\* the dispatch task is cancelled while it waits on the queue or on a handler
CancelDispatch ==
  /\ cancels < MaxCancels
  /\ cancels' = cancels + 1
  /\ \/ /\ dispatch.pc = "get"
        /\ dispatch' = Idle("done")
        /\ UNCHANGED <<fwVars, _handlers, _queue, _sources, _sources_started,
                       hooks, subscribes, unsubscribes, overwritten, delivered,
                       callbacks, inflight, raised, exceptions, rounds,
                       published, dispatched, tasks, srcVars, detVars>>
     \/ HandlerEnds("CancelledError")

\* ----------------------------------------------------- watcher operations
Stamps == {"", "t1"}

\* the bookmark entries a desktop may append: href, visited and added
\* attributes, of which an entry carries one stamp at most (the stamp of the
\* identifier is `visited or added or ""`, line 168)
Bookmarks ==
  {b \in [href : {1, 2, 4}, visited : Stamps, added : Stamps] :
     b.visited = "" \/ b.added = ""}

\* the desktop appends a bookmark to the record
AppendEntry(bookmark) ==
  /\ Len(record) < MaxRecord
  /\ record' = Append(record, bookmark)
  /\ UNCHANGED <<fwVars, monVars, watcher, fileState, detVars>>

\* the record file disappears, becomes unparsable, or is readable again
SetFileState(st) ==
  /\ st # fileState
  /\ fileState' = st
  /\ UNCHANGED <<fwVars, monVars, watcher, record, detVars>>

\* One pass of the try block of _watch_loop.  asyncio.to_thread hands back the
\* generator of _read_recent_entries; its body (exists, parse, bookmark loop)
\* runs when the `for` loop pulls from it, and publish on the unbounded queue
\* does not suspend, so the pass is one step of the event loop.
WatcherRead(s) ==
  LET w    == watcher[s]
      here == BodyThread(ReadIsGenerator)
  IN
  /\ w.pc = "read"
  /\ IF fileState # "ok"
       THEN \* the body raises and an except clause of _watch_loop takes it
            /\ watcher' = [watcher EXCEPT ![s] =
                 [w EXCEPT !.pc = AfterRaise(ReadRaises(fileState)),
                           !.scannedOn = @ \cup {here},
                           !.slept = <<0>>,
                           !.missing = (fileState = "absent"),
                           !.recovered = FALSE]]
            /\ UNCHANGED <<events, inspectCalls, analyzeCalls, inspectReturns, _queue,
                           published>>
     ELSE
       LET r == _read_recent_entries(w)
       IN /\ Len(events) + Len(r.out) <= MaxEvents
          /\ watcher' = [watcher EXCEPT ![s] =
               [w EXCEPT !.pc = "sleep",
                         !._processed = r.processed,
                         !._processed_index = r.index,
                         !.deduped = @ \/ r.skipped,
                         !.scannedOn = @ \cup {here},
                         !.slept = <<0>>,
                         !.missing = FALSE,
                         !.recovered = (w.missing /\ r.out # <<>>)]]
          /\ Created(r.out)
          /\ Enqueued([i \in 1..Len(r.out) |-> Len(events) + i])
  /\ UNCHANGED <<now, heap, held, blockLog, appendedFor, _handlers, _sources,
                 _sources_started, dispatch, hooks, subscribes, unsubscribes,
                 overwritten, delivered, callbacks, inflight, raised, exceptions,
                 rounds, dispatched, tasks, cancels, record, fileState, detVars>>

\* an `await asyncio.sleep(self.poll_interval)` of _watch_loop returns: the
\* one of the FileNotFoundError handler leads to the one that ends the
\* iteration, that one to the next read
WatcherWake(s) ==
  /\ watcher[s].pc \in {"sleep_nf", "sleep"}
  /\ watcher' = [watcher EXCEPT ![s].pc = IF @ = "sleep_nf" THEN "sleep" ELSE "read",
                                ![s].slept = <<@[1] + 1>>]
  /\ UNCHANGED <<fwVars, monVars, record, fileState, detVars>>

\* the watcher task is cancelled at one of its awaits: to_thread, inside the
\* try block, or one of the two sleeps, outside it
CancelWatcher(s) ==
  /\ cancels < MaxCancels
  /\ watcher[s].pc \in {"read", "sleep_nf", "sleep"}
  /\ watcher' = [watcher EXCEPT ![s].pc =
                   IF @ = "read" THEN AfterRaise("CancelledError") ELSE "done"]
  /\ cancels' = cancels + 1
  /\ UNCHANGED <<fwVars, _handlers, _queue, _sources, _sources_started,
                 dispatch, hooks, subscribes, unsubscribes, overwritten,
                 delivered, callbacks, inflight, raised, exceptions, rounds,
                 published, dispatched, tasks, record, fileState, detVars>>

\* ------------------------------------------------------- specifications
Tokens == Handlers \X (0..MaxSubs)

Bools == {TRUE, FALSE}

\* the detector under direct calls
DetectorNext == Analyze

SpecDetector == DetectorInit /\ [][DetectorNext]_vars

\* the firewall and LinkClickEvent.block under their callers, with events
\* handed in by a producer
FirewallNext ==
  \/ \E u \in ApiUrls : Len(events) < MaxPublish /\ Publish(u)
  \/ \E e \in 1..MaxBlocks : Inspect(e)
  \/ \E e \in 1..MaxBlocks, r \in OtherReasons, b \in OtherBlockers : Block(e, r, b)
  \/ ClockTick

SpecFirewall == Init /\ [][FirewallNext]_vars

\* the firewall's history buffer and the readers of history()
HistoryNext ==
  \/ \E u \in ApiUrls : Len(events) < MaxBlocks /\ Publish(u)
  \/ \E e \in 1..MaxBlocks : Inspect(e)
  \/ History
  \/ \E i \in 1..MaxReturned, op \in {"clear", "append"} : MutateReturned(i, op)

SpecHistory == Init /\ [][HistoryNext]_vars

\* the monitor with its subscribers, hooks and the firewall behind the hooks
MonitorNext ==
  \/ \E h \in Handlers, a \in Bools, b \in Bools :
        subscribes < MaxHandlers /\ Subscribe(h, a, b)
  \/ \E h \in Handlers, a \in Bools, b \in Bools :
        subscribes < MaxHandlers /\ OnLoad(h, a, b)
  \/ \E t \in Tokens : Unsubscribe(t)
  \/ \E u \in ApiUrls : Len(events) < MaxRounds /\ Publish(u)
  \/ DispatchGet
  \/ HandlerReturns
  \/ HandlerRaises
  \/ CancelDispatch

SpecMonitor == Init /\ [][MonitorNext]_vars

\* registration and start-up: the registry, the dispatch task, the sources;
\* subscribers use the default filter, hooks the LinkController's
LifecycleNext ==
  \/ EnsureRunning
  \/ \E s \in Sources : RegisterSource(s)
  \/ \E h \in Handlers : Subscribe(h, TRUE, TRUE)
  \/ \E h \in Handlers : OnLoad(h, FALSE, TRUE)
  \/ \E t \in Tokens : Unsubscribe(t)
  \/ CancelDispatch
  \/ \E s \in Sources : CancelWatcher(s)

SpecLifecycle == Init /\ [][LifecycleNext]_vars

\* the watcher, the record it polls and the queue it fills
WatcherNext ==
  \/ EnsureRunning
  \/ \E b \in Bookmarks : AppendEntry(b)
  \/ \E st \in {"ok", "absent", "bad"} : SetFileState(st)
  \/ \E s \in Sources : WatcherRead(s)
  \/ \E s \in Sources : WatcherWake(s)
  \/ \E s \in Sources : CancelWatcher(s)

SpecWatcher == Init /\ [][WatcherNext]_vars

\* The watcher under the event loop's scheduling, with a record that stays
\* within the dedup window.  A task that is not cancelled is resumed: a sleep
\* returns after poll_interval, to_thread returns when the worker is done.
PollingNext ==
  \/ EnsureRunning
  \/ \E b \in Bookmarks : Len(record) < Window /\ AppendEntry(b)
  \/ \E st \in {"ok", "absent", "bad"} : SetFileState(st)
  \/ \E s \in Sources : WatcherRead(s)
  \/ \E s \in Sources : WatcherWake(s)
  \/ \E s \in Sources : CancelWatcher(s)

\* both background tasks and their cancellation: the watcher feeds the queue,
\* subscribers and hooks take everything
ShutdownNext ==
  \/ EnsureRunning
  \/ \E h \in Handlers : subscribes < MaxHandlers /\ Subscribe(h, TRUE, TRUE)
  \/ \E h \in Handlers : subscribes < MaxHandlers /\ OnLoad(h, TRUE, TRUE)
  \/ \E b \in Bookmarks :
        Len(record) < Window /\ b.visited = "" /\ b.added = "" /\ AppendEntry(b)
  \/ \E st \in {"ok", "absent"} : SetFileState(st)
  \/ \E s \in Sources : WatcherRead(s)
  \/ \E s \in Sources : WatcherWake(s)
  \/ \E s \in Sources : CancelWatcher(s)
  \/ DispatchGet
  \/ HandlerReturns
  \/ HandlerRaises
  \/ CancelDispatch

SpecShutdown == Init /\ [][ShutdownNext]_vars

SpecPolling ==
  /\ Init
  /\ [][PollingNext]_vars
  /\ \A s \in Sources : WF_vars(WatcherRead(s)) /\ WF_vars(WatcherWake(s))

\* ------------------------------------------------------------ properties
IsMatch(e) == Detector[events[e].url].is_rickroll

\* C1: every dispatched event whose url the Detector classifies as a match,
\* and whose snapshot held an OnLinkOpen hook handler that takes blocked
\* events (whatever its include_safe, so LinkController's include_safe=False,
\* include_blocked=True too), has been passed to Firewall.inspect, is blocked
\* and has a history record.
C1_MatchInspectedAndBlocked ==
  \A i \in 1..Len(rounds) :
    LET e    == rounds[i].event
        snap == rounds[i].snap
    IN (/\ e \in dispatched
        /\ IsMatch(e)
        /\ \E k \in 1..Len(snap) :
             /\ snap[k].record.handler \in HookHandlers
             /\ snap[k].record.include_blocked)
       => /\ inspectCalls[e] > 0
          /\ events[e].blocked
          /\ \E k \in 1..Len(blockLog) : blockLog[k].url = events[e].url

\* the entry identifier an event was made from
EntryOf(ev) == EntryId(ev.url, ev.metadata.visited)

\* C2 as claimed: whatever the size of the record, the watcher creates at most
\* one event per entry identifier.
C2_AtMostOncePerEntry ==
  \A i, j \in 1..Len(events) :
    i # j => EntryOf(events[i]) # EntryOf(events[j])

\* C2 amended: while the record holds at most Window distinct http(s) entry
\* identifiers, the watcher creates at most one event per entry identifier.
C2_AtMostOnceWithinWindow ==
  Cardinality(HttpIds(record)) <= Window =>
    \A i, j \in 1..Len(events) :
      i # j => EntryOf(events[i]) # EntryOf(events[j])

\* a record of Window distinct http(s) entries was read again: entries were
\* skipped as seen and each has exactly one event
C2_Witness ==
  /\ watcher["recent_watcher"].deduped
  /\ Len(record) = Window
  /\ Cardinality(HttpIds(record)) = Window
  /\ Len(events) = Window

\* C3: no subscribe call overwrites a live registration, and the registry
\* holds one record per subscribe not yet unsubscribed.
C3_TokensUnique ==
  /\ overwritten = 0
  /\ Len(_handlers) = subscribes - unsubscribes

\* C4: every handler invocation of the dispatch loop satisfied the filter of
\* its subscription on the event's blocked flag as it was at the invocation.
C4_FilterAtInvocation ==
  \A i \in 1..Len(delivered) :
    /\ delivered[i].blocked => delivered[i].include_blocked
    /\ ~delivered[i].blocked => delivered[i].include_safe

Got(token, e) ==
  \E k \in 1..Len(delivered) : delivered[k].token = token /\ delivered[k].event = e

\* a hook handler blocked the event in a round whose snapshot later held a
\* subscriber that takes safe events only, and that subscriber was skipped
C4_Witness ==
  \E i \in 1..Len(rounds) :
    LET e    == rounds[i].event
        snap == rounds[i].snap
    IN /\ e \in dispatched
       /\ events[e].blocked
       /\ \E a, b \in 1..Len(snap) :
            /\ a < b
            /\ snap[a].record.handler \in HookHandlers
            /\ \E k \in 1..Len(delivered) :
                 /\ delivered[k].token = snap[a].token
                 /\ delivered[k].event = e
                 /\ ~delivered[k].blocked
            /\ snap[b].record.include_safe
            /\ ~snap[b].record.include_blocked
            /\ ~Got(snap[b].token, e)

\* C5: a blocked event stays blocked and keeps blocked_by, block_reason and
\* metadata.blocked_at through every later block() and inspect() call.
C5_BlockOneWay ==
  [][\A e \in 1..Len(events) :
       events[e].blocked =>
         /\ events'[e].blocked
         /\ events'[e].blocked_by = events[e].blocked_by
         /\ events'[e].block_reason = events[e].block_reason
         /\ events'[e].metadata.blocked_at = events[e].metadata.blocked_at]_vars

\* an event blocked by hand was inspected afterwards, classified a match, at
\* a later time, and still carries the first call's marks
C5_Witness ==
  \E e \in 1..Len(events) :
    /\ events[e].blocked
    /\ events[e].blocked_by = <<"manual">>
    /\ events[e].metadata.analysis # <<>>
    /\ events[e].metadata.analysis[1].is_rickroll
    /\ events[e].metadata.blocked_at[1] < now

\* C6: an event that inspect was called on has had analyze called exactly
\* once, and every inspect call returned the result stored in its metadata.
C6_AnalyzeOnce ==
  \A e \in 1..Len(events) :
    inspectCalls[e] > 0 =>
      /\ analyzeCalls[e] = 1
      /\ events[e].metadata.analysis # <<>>
      /\ inspectReturns[e] = {events[e].metadata.analysis[1]}

\* inspect ran more than once on one event
C6_Witness ==
  \E e \in 1..Len(events) : inspectCalls[e] >= 2 /\ analyzeCalls[e] = 1

\* C7: a handler exception is caught and logged, ends nothing but that
\* invocation: the dispatch task only ever ends by cancellation, and the step
\* in which a handler raises goes on to the next accepted subscriber of the
\* snapshot (or ends the round), leaving registry and queue as they were.
C7_RaiseIsolated ==
  /\ [](dispatch.pc = "done" => cancels > 0)
  /\ [](Len(exceptions) = Len(raised))
  /\ [][Len(raised') > Len(raised) =>
          /\ _handlers' = _handlers
          /\ _queue' = _queue
          /\ LET i == NextMatch(dispatch.rest, events[dispatch.event])
             IN IF i = 0
                  THEN dispatch'.pc = "get" /\ dispatch.event \in dispatched'
                  ELSE /\ dispatch'.pc = "handler"
                       /\ dispatch'.event = dispatch.event
                       /\ dispatch'.token = dispatch.rest[i].token]_vars

\* a handler raised for an event, a later subscriber of the snapshot still
\* got that event, and the raising subscriber got the next event
C7_Witness ==
  \E r \in Range(raised) :
    \E i, j, k \in 1..Len(delivered) :
      /\ i < j /\ j < k
      /\ delivered[i].token = r.token /\ delivered[i].event = r.event
      /\ delivered[j].token # r.token /\ delivered[j].event = r.event
      /\ delivered[k].token = r.token /\ delivered[k].event # r.event

PositionIn(seq, x) == CHOOSE n \in 1..Len(seq) : seq[n] = x

\* C8: handlers are invoked in the order publish enqueued the events, and at
\* most one invocation of the dispatch loop is in progress.
C8_FifoSequential ==
  /\ \A i, j \in 1..Len(delivered) :
       i < j => PositionIn(published, delivered[i].event)
                  <= PositionIn(published, delivered[j].event)
  /\ Cardinality(inflight) <= 1
  /\ \A x \in inflight : dispatch.pc = "handler" /\ x.event = dispatch.event

\* one subscriber got two events, both rounds over
C8_Witness ==
  /\ Len(published) >= 2
  /\ \E t \in Tokens : Got(t, published[1]) /\ Got(t, published[2])
  /\ published[2] \in dispatched

\* C9: a dispatch task is created only when none is alive, every registered
\* source is started once the loop runs, and without cancellations every
\* registered source has had exactly one polling task spawned.
C9_StartOnce ==
  /\ [](/\ cancels = 0 => tasks <= 1
        /\ dispatch.pc # "none" => _sources_started
        /\ \A s \in Sources :
             /\ (_sources_started /\ s \in Range(_sources)) => watcher[s].pc # "none"
             /\ cancels = 0 =>
                  watcher[s].spawned =
                    IF _sources_started /\ s \in Range(_sources) THEN 1 ELSE 0)
  /\ [][tasks' # tasks =>
          /\ dispatch.pc \in {"none", "done"}
          /\ tasks' = tasks + 1
          /\ dispatch'.pc = "get"]_vars

\* several subscribes and a source registered twice, nothing cancelled
C9_Witness ==
  /\ cancels = 0
  /\ subscribes >= 2
  /\ tasks = 1
  /\ Len(_sources) > Cardinality(Range(_sources))
  /\ Range(_sources) = Sources
  /\ \A s \in Sources : watcher[s].spawned = 1

LastN(seq, n) ==
  IF Len(seq) <= n THEN seq ELSE SubSeq(seq, Len(seq) - n + 1, Len(seq))

RecordsFor(e) == {k \in 1..Len(appendedFor) : appendedFor[k] = e}

\* C11: no event object has more than one history record; history records
\* are appended by inspect calls only, one at most per call, and a call
\* appends one exactly when it takes its event from unblocked to blocked.
C11_BlockedOnce ==
  /\ [](\A e \in 1..Len(events) : Cardinality(RecordsFor(e)) <= 1)
  /\ [][/\ blockLog' # blockLog =>
             \E e \in 1..Len(events) : inspectCalls'[e] > inspectCalls[e]
        /\ \A e \in 1..Len(events) :
             inspectCalls'[e] > inspectCalls[e] =>
               /\ Len(blockLog') \in {Len(blockLog), Len(blockLog) + 1}
               /\ (/\ Len(blockLog') = Len(blockLog) + 1
                   /\ appendedFor'[Len(appendedFor')] = e)
                  <=> (~events[e].blocked /\ events'[e].blocked)]_vars

\* a match blocked by inspect and inspected again has one record, and a
\* match blocked by hand before its inspect has none
C11_Witness ==
  \E e, f \in 1..Len(events) :
    /\ inspectCalls[e] >= 2
    /\ events[e].blocked_by = <<FirewallName>>
    /\ Cardinality(RecordsFor(e)) = 1
    /\ inspectCalls[f] >= 1
    /\ IsMatch(f)
    /\ events[f].blocked_by = <<"manual">>
    /\ RecordsFor(f) = {}

\* C12: an inspect call leaves its event blocked exactly if the result is a
\* match or the event was blocked before; for a result that is not a match it
\* changes none of blocked, blocked_by, block_reason and appends nothing; an
\* unblocked event has blocked_by and block_reason unset; and every call
\* returns the Detector's classification of the event's url.
C12_BlocksOnlyMatches ==
  /\ [](\A e \in 1..Len(events) :
          /\ ~events[e].blocked =>
               events[e].blocked_by = <<>> /\ events[e].block_reason = <<>>
          /\ (inspectCalls[e] > 0 /\ ~IsMatch(e)) =>
               /\ events[e].blocked_by # <<FirewallName>>
               /\ RecordsFor(e) = {})
  /\ [][\A e \in 1..Len(events) :
          inspectCalls'[e] > inspectCalls[e] =>
            LET result == Detector[events[e].url]
            IN /\ inspectReturns'[e] = {result}
               /\ events'[e].blocked <=> (result.is_rickroll \/ events[e].blocked)
               /\ ~result.is_rickroll =>
                    /\ events'[e].blocked = events[e].blocked
                    /\ events'[e].blocked_by = events[e].blocked_by
                    /\ events'[e].block_reason = events[e].block_reason
                    /\ blockLog' = blockLog]_vars

\* a safe url was inspected and its event is not blocked, and a match was
\* inspected and blocked by the firewall
C12_Witness ==
  \E e, f \in 1..Len(events) :
    /\ inspectCalls[e] > 0 /\ ~IsMatch(e) /\ ~events[e].blocked
    /\ inspectCalls[f] > 0 /\ IsMatch(f)
    /\ events[f].blocked_by = <<FirewallName>>

\* the signatures a url contains, compared without regard to case
SignaturesIn(u) ==
  {i \in 1..Len(_PATTERNS) : Contains(Lower(u), Lower(_PATTERNS[i]))}

HasKeyword(u) == \E token \in HeuristicTokens : Contains(Lower(u), token)

\* C13 as claimed: for every signature the url contains, analyze returns a
\* match with confidence 1.0 whose matched_pattern is that signature; a url
\* with no signature and no keyword gets no match, 0.1, no matched_pattern.
C13_EverySignatureReported ==
  analyzeResult # <<>> =>
    LET r == analyzeResult[1]
    IN /\ \A i \in SignaturesIn(analyzeArg) :
            /\ r.is_rickroll
            /\ r.confidence = 10
            /\ r.matched_pattern = <<_PATTERNS[i]>>
       /\ (SignaturesIn(analyzeArg) = {} /\ ~HasKeyword(analyzeArg)) =>
            /\ ~r.is_rickroll
            /\ r.confidence = 1
            /\ r.matched_pattern = <<>>

\* C13 amended: for a url that contains signatures, analyze returns a match
\* with confidence 1.0 whose matched_pattern is the one of them that comes
\* first in _PATTERNS; a url with no signature and no keyword gets no match,
\* 0.1, no matched_pattern.
C13_FirstSignatureReported ==
  analyzeResult # <<>> =>
    LET r == analyzeResult[1]
    IN /\ \A i \in SignaturesIn(analyzeArg) :
            /\ r.is_rickroll
            /\ r.confidence = 10
            /\ \E j \in SignaturesIn(analyzeArg) :
                 /\ j <= i
                 /\ r.matched_pattern = <<_PATTERNS[j]>>
       /\ (SignaturesIn(analyzeArg) = {} /\ ~HasKeyword(analyzeArg)) =>
            /\ ~r.is_rickroll
            /\ r.confidence = 1
            /\ r.matched_pattern = <<>>

\* analyze was called on a url that holds two signatures, in another case
\* than they are declared in
C13_Witness ==
  /\ analyzeResult # <<>>
  /\ Cardinality(SignaturesIn(analyzeArg)) >= 2
  /\ \E i \in SignaturesIn(analyzeArg) : ~Contains(analyzeArg, _PATTERNS[i])
  /\ analyzeResult[1].is_rickroll

Watched == "recent_watcher"

\* the entry identifiers of the events the watcher published, in order
Emitted == [k \in 1..Len(published) |-> EntryOf(events[published[k]])]

\* C14: _processed has no duplicates and at most Window elements, and
\* _processed_index holds exactly its elements; a step that drops identifiers
\* drops the oldest ones, from both, and leaves the window full.
C14_WindowLockstep ==
  /\ [](\A s \in Sources :
          LET proc == watcher[s]._processed
          IN /\ Len(proc) <= Window
             /\ \A i, j \in 1..Len(proc) : i # j => proc[i] # proc[j]
             /\ watcher[s]._processed_index = Range(proc))
  /\ [][\A s \in Sources :
          LET old == watcher[s]._processed
              new == watcher'[s]._processed
          IN new # old =>
               \E k \in 0..Len(old) :
                 /\ Len(new) >= Len(old) - k
                 /\ SubSeq(new, 1, Len(old) - k) = SubSeq(old, k + 1, Len(old))
                 /\ k > 0 => Len(new) = Window
                 /\ \A i \in 1..k :
                      old[i] \in watcher'[s]._processed_index
                        => old[i] \in Range(SubSeq(new, Len(old) - k + 1, Len(new)))]_vars

\* the window is full and identifiers have been evicted from it
C14_Witness ==
  /\ Len(watcher[Watched]._processed) = Window
  /\ Range(Emitted) \ watcher[Watched]._processed_index # {}

\* C15: the identifiers the watcher knows are the Window most recently
\* emitted ones, in emission order, and whenever a read meets an http(s)
\* entry whose identifier is not among them it publishes an event for it.
C15_WindowEviction ==
  /\ [](/\ watcher[Watched]._processed = LastN(Emitted, Window)
        /\ watcher[Watched]._processed_index = Range(LastN(Emitted, Window)))
  /\ [][(watcher[Watched].slept # watcher'[Watched].slept
           /\ watcher'[Watched].slept = <<0>> /\ fileState = "ok") =>
          /\ \A x \in HttpIds(record) \ watcher[Watched]._processed_index :
               \E k \in (Len(published) + 1)..Len(published') :
                  EntryOf(events'[published'[k]]) = x
          /\ \A k \in (Len(published) + 1)..Len(published') :
               EntryOf(events'[published'[k]]) \in HttpIds(record)]_vars

\* more than Window identifiers were emitted, and one that had been evicted
\* was emitted again and is known again
C15_Witness ==
  /\ Cardinality(Range(Emitted)) > Window
  /\ \E i, j \in 1..Len(Emitted) :
       /\ j - i > Window
       /\ Emitted[i] = Emitted[j]
       /\ Emitted[j] \in watcher[Watched]._processed_index

\* the http(s) entries of the record no event was published for
Pending == HttpIds(record) \ Range(Emitted)

\* C16: the polling task ends by cancellation only; a read that fails creates
\* and publishes no event and leaves the task at one of its sleeps; a sleeping
\* task gets to its next read and a reading task through it, unless
\* cancelled; and if the record stays readable from some point on, then,
\* unless the task is cancelled, every http(s) entry in it gets published.
C16_Resilient ==
  /\ [](\A s \in Sources : watcher[s].pc = "done" => cancels > 0)
  /\ [][\A s \in Sources :
          (/\ watcher[s].pc = "read"
           /\ watcher'[s] # watcher[s]
           /\ cancels' = cancels
           /\ fileState # "ok")
          => /\ events' = events
             /\ published' = published
             /\ _queue' = _queue
             /\ watcher'[s].pc \in {"sleep", "sleep_nf"}]_vars
  /\ \A s \in Sources :
       /\ (watcher[s].pc \in {"sleep", "sleep_nf"}) ~> (watcher[s].pc \in {"read", "done"})
       /\ (watcher[s].pc = "read") ~> (watcher[s].pc \in {"sleep", "sleep_nf", "done"})
  /\ (<>[](fileState = "ok")) =>
       []<>(Pending = {} \/ watcher[Watched].pc \in {"none", "done"})

\* the read before the last one found no record, and the last one published
\* an entry
C16_Witness ==
  /\ watcher[Watched].recovered
  /\ watcher[Watched].pc = "sleep"
  /\ Pending = {}
  /\ published # <<>>

\* C17: the step that cancels the watcher task ends it and publishes nothing,
\* and an ended watcher task publishes nothing; the step that cancels the
\* dispatch task ends it and invokes no handler or callback, and an ended
\* dispatch task invokes none.
C17_CancelPropagates ==
  /\ [][\A s \in Sources :
          /\ (cancels' > cancels /\ watcher'[s] # watcher[s]) =>
               /\ watcher'[s].pc = "done"
               /\ published' = published
               /\ _queue' = _queue
          /\ (watcher[s].pc = "done" /\ watcher'[s].spawned = watcher[s].spawned) =>
               /\ watcher'[s].pc = "done"
               /\ published' = published]_vars
  /\ [][/\ (cancels' > cancels /\ dispatch' # dispatch) =>
             /\ dispatch'.pc = "done"
             /\ delivered' = delivered
             /\ callbacks' = callbacks
             /\ exceptions' = exceptions
        /\ (dispatch.pc = "done" /\ tasks' = tasks) =>
             /\ dispatch'.pc = "done"
             /\ delivered' = delivered
             /\ callbacks' = callbacks
             /\ _queue' = _queue \o SubSeq(published', Len(published) + 1, Len(published'))]_vars

\* the dispatch task was cancelled while it awaited a handler: a subscriber of
\* the round's snapshot never got the event, and an event is still queued
C17_Witness ==
  /\ cancels = 1
  /\ dispatch.pc = "done"
  /\ _queue # <<>>
  /\ \E i \in 1..Len(rounds) :
       /\ rounds[i].event \notin dispatched
       /\ \E k \in 1..Len(rounds[i].snap) : ~Got(rounds[i].snap[k].token, rounds[i].event)

\* C18: the body of _read_recent_entries (the existence test, the parse and
\* the scan of the bookmarks) only ever runs on a worker thread, never on the
\* thread of the event loop that also runs the dispatch loop.
C18_ReadOffLoop ==
  \A s \in Sources : watcher[s].scannedOn \subseteq {"worker"}

\* C19: when the watcher task is about to read again, it has completed
\* exactly one sleep since its previous read.
C19_OneSleepBetweenReads ==
  \A s \in Sources :
    (watcher[s].pc = "read" /\ watcher[s].slept # <<>>) => watcher[s].slept = <<1>>

\* C20: every controller callback invoked by a hook handler got an event
\* whose blocked flag, as it was when the callback was called, passes the
\* hook's own filter: blocked only with include_blocked, unblocked only with
\* include_safe.
C20_CallbackFiltered ==
  \A i \in 1..Len(callbacks) :
    /\ callbacks[i].blocked => callbacks[i].include_blocked
    /\ ~callbacks[i].blocked => callbacks[i].include_safe

====
